---- MODULE Spec2Model ----
(***************************************************************************)
(* A model of build.py, the static blog builder: the Markdown block        *)
(* converter md_to_html as a line-by-line state machine, the frontmatter   *)
(* parser, the slug generator, the date normaliser and the build run.      *)
(*                                                                         *)
(* Text is modelled as a sequence of characters (one-character strings).   *)
(* A piece of HTML that the program writes literally ("<ul>", "&lt;", ...) *)
(* is one element of such a sequence, standing for its characters.         *)
(***************************************************************************)
EXTENDS Integers, Sequences, FiniteSets, TLC

\* ---------------------------------------------------------------- bounds

\* Number of body lines md_to_html is fed.
MaxLines == 3

\* Number of lines of a document text parse_frontmatter is fed.
MaxFmLines == 4

\* Length of the titles slugify is fed.
MaxTitleLen == 4

\* Length of what follows the first letter inside a span inline_format is fed.
MaxWordLen == 1

\* Length of the plain text between two spans.
MaxSepLen == 1

\* ------------------------------------------------------- string helpers

\* str.strip() / the regex class \s
IsSpace(c) == c \in {" ", "\t", "\n", "\r"}

\* the regex class \d
IsDigit(c) == c \in {"0", "1", "2", "3", "4", "5", "6", "7", "8", "9"}

Drop(s, n) == SubSeq(s, n + 1, Len(s))

\* Number of leading elements of s that satisfy the class test.
RECURSIVE LeadingSpaces(_)
LeadingSpaces(s) ==
    IF s # <<>> /\ IsSpace(Head(s)) THEN 1 + LeadingSpaces(Tail(s)) ELSE 0

RECURSIVE TrailingSpaces(_)
TrailingSpaces(s) ==
    IF s # <<>> /\ IsSpace(s[Len(s)])
    THEN 1 + TrailingSpaces(SubSeq(s, 1, Len(s) - 1)) ELSE 0

RECURSIVE LeadingDigits(_)
LeadingDigits(s) ==
    IF s # <<>> /\ IsDigit(Head(s)) THEN 1 + LeadingDigits(Tail(s)) ELSE 0

\* str.strip()
Strip(s) ==
    LET l == LeadingSpaces(s)
    IN  IF l = Len(s) THEN <<>>
        ELSE SubSeq(s, l + 1, Len(s) - TrailingSpaces(s))

\* str.startswith(p)
StartsWith(s, p) == Len(s) >= Len(p) /\ SubSeq(s, 1, Len(p)) = p

\* s[i:].startswith(p), i counted from 1
StartsWithAt(s, i, p) ==
    i + Len(p) - 1 <= Len(s) /\ SubSeq(s, i, i + Len(p) - 1) = p

\* html.escape(s) (quote=True), character by character
EscapeChar(c) ==
    CASE c = "&" -> "&amp;"
      [] c = "<" -> "&lt;"
      [] c = ">" -> "&gt;"
      [] c = "\"" -> "&quot;"
      [] c = "'" -> "&#x27;"
      [] OTHER -> c

html_escape(s) == [i \in 1..Len(s) |-> EscapeChar(s[i])]

SetMin(S) == CHOOSE x \in S : \A y \in S : x <= y

SetMax(S) == CHOOSE x \in S : \A y \in S : x >= y

NoNewline(s) == \A i \in 1..Len(s) : s[i] # "\n"

\* sep.join(parts)
RECURSIVE Join(_, _)
Join(parts, sep) ==
    IF parts = <<>> THEN <<>>
    ELSE IF Len(parts) = 1 THEN parts[1]
    ELSE parts[1] \o sep \o Join(Tail(parts), sep)

\* s.split(c) for a one-character separator c
RECURSIVE Split(_, _)
Split(s, c) ==
    LET hits == {i \in 1..Len(s) : s[i] = c}
    IN  IF hits = {} THEN <<s>>
        ELSE LET i == SetMin(hits)
             IN  <<SubSeq(s, 1, i - 1)>> \o Split(Drop(s, i), c)

\* ------------------------------------------------- md_to_html: inline_format

\* re.sub(d(.+?)d, open \1 close, s) for a delimiter d: leftmost match, the
\* group as short as possible (at least one character, no newline), the scan
\* resuming after each match.
RECURSIVE SubDelim(_, _, _, _)
SubDelim(s, d, open, close) ==
    IF s = <<>> THEN <<>>
    ELSE
      LET n  == Len(d)
          ks == {k \in 1..(Len(s) - 2 * n) :
                    /\ StartsWithAt(s, n + k + 1, d)
                    /\ NoNewline(SubSeq(s, n + 1, n + k))}
      IN  IF StartsWith(s, d) /\ ks # {}
          THEN LET k == SetMin(ks)
               IN  <<open>> \o SubSeq(s, n + 1, n + k) \o <<close>>
                     \o SubDelim(Drop(s, 2 * n + k), d, open, close)
          ELSE <<Head(s)>> \o SubDelim(Tail(s), d, open, close)

\* re.sub(r'\[(.+?)\]\((.+?)\)', r'<a href="\2">\1</a>', s)
RECURSIVE SubLink(_)
SubLink(s) ==
    IF s = <<>> THEN <<>>
    ELSE
      LET \* m: the length of group 2 when group 1 has length k
          ms(k) == {m \in 1..(Len(s) - k - 4) :
                      /\ s[k + 4 + m] = ")"
                      /\ NoNewline(SubSeq(s, k + 4, k + 3 + m))}
          ks == {k \in 1..(Len(s) - 5) :
                    /\ s[k + 2] = "]"
                    /\ s[k + 3] = "("
                    /\ NoNewline(SubSeq(s, 2, k + 1))
                    /\ ms(k) # {}}
      IN  IF Head(s) = "[" /\ ks # {}
          THEN LET k == SetMin(ks)
                   m == SetMin(ms(k))
               IN  <<"<a href=\"">> \o SubSeq(s, k + 4, k + 3 + m) \o <<"\">">>
                     \o SubSeq(s, 2, k + 1) \o <<"</a>">>
                     \o SubLink(Drop(s, k + 4 + m))
          ELSE <<Head(s)>> \o SubLink(Tail(s))

\* The grave accent U+0060, which a TLA+ string literal cannot hold.
Backtick == "U+0060"

\* The slip of substituting the single asterisks before the double ones.
inline_format_ItalicFirst(s) ==
    LET s1 == SubDelim(s, <<"*", "*", "*">>, "<strong><em>", "</em></strong>")
        s2 == SubDelim(s1, <<"*">>, "<em>", "</em>")
        s3 == SubDelim(s2, <<"*", "*">>, "<strong>", "</strong>")
        s4 == SubDelim(s3, <<Backtick>>, "<code>", "</code>")
    IN  SubLink(s4)

inline_format(s) ==
    LET s1 == SubDelim(s, <<"*", "*", "*">>, "<strong><em>", "</em></strong>")
        s2 == SubDelim(s1, <<"*", "*">>, "<strong>", "</strong>")
        s3 == SubDelim(s2, <<"*">>, "<em>", "</em>")
        s4 == SubDelim(s3, <<Backtick>>, "<code>", "</code>")
    IN  SubLink(s4)

\* ------------------------------------------------- md_to_html: the line loop

Fence == <<Backtick, Backtick, Backtick>>

\* The state of md_to_html before its first line.
MdInit ==
    [result |-> <<>>, in_list |-> FALSE, in_ol |-> FALSE, in_code |-> FALSE,
     in_blockquote |-> FALSE, bq_lines |-> <<>>]

Emit(st, frag) == [st EXCEPT !.result = Append(@, frag)]

\* flush_blockquote()
flush_blockquote(st) ==
    IF st.in_blockquote
    THEN [st EXCEPT
            !.result = Append(@, <<"<blockquote><p>">>
                                   \o inline_format(Join(st.bq_lines, <<" ">>))
                                   \o <<"</p></blockquote>">>),
            !.in_blockquote = FALSE,
            !.bq_lines = <<>>]
    ELSE st

\* re.match(r'^(#{1,3})\s+(.+)', stripped): 0 when there is no match, else
\* the number of '#' characters of group 1.
RECURSIVE LeadingHashes(_)
LeadingHashes(s) ==
    IF s # <<>> /\ Head(s) = "#" THEN 1 + LeadingHashes(Tail(s)) ELSE 0

HeadingHashes(stripped) ==
    LET h  == LeadingHashes(stripped)
        ws == LeadingSpaces(Drop(stripped, h))
    IN  IF /\ h \in 1..3
           /\ ws >= 1
           /\ Len(stripped) > h + ws
           /\ NoNewline(Drop(stripped, h + ws))
        THEN h ELSE 0

\* group 2 of the heading match
HeadingText(stripped) ==
    LET h == LeadingHashes(stripped)
    IN  Drop(stripped, h + LeadingSpaces(Drop(stripped, h)))

HOpen(level) == CASE level = 2 -> "<h2>" [] level = 3 -> "<h3>" [] OTHER -> "<h4>"

HClose(level) == CASE level = 2 -> "</h2>" [] level = 3 -> "</h3>" [] OTHER -> "</h4>"

\* stripped in ('---', '***', '___') and len(stripped) >= 3
IsHorizontalRule(stripped) ==
    /\ stripped \in {<<"-", "-", "-">>, <<"*", "*", "*">>, <<"_", "_", "_">>}
    /\ Len(stripped) >= 3

\* re.match(r'^[-*]\s+', stripped)
IsUlItem(stripped) ==
    /\ stripped # <<>>
    /\ Head(stripped) \in {"-", "*"}
    /\ LeadingSpaces(Tail(stripped)) >= 1

\* re.sub(r'^[-*]\s+', '', stripped)
UlContent(stripped) == Drop(stripped, 1 + LeadingSpaces(Tail(stripped)))

\* re.match(r'^\d+\.\s+', stripped)
IsOlItem(stripped) ==
    LET d == LeadingDigits(stripped)
    IN  /\ d >= 1
        /\ Len(stripped) > d
        /\ stripped[d + 1] = "."
        /\ LeadingSpaces(Drop(stripped, d + 1)) >= 1

\* re.sub(r'^\d+\.\s+', '', stripped)
OlContent(stripped) ==
    LET d == LeadingDigits(stripped)
    IN  Drop(stripped, d + 1 + LeadingSpaces(Drop(stripped, d + 1)))

\* The slip of escaping the stripped line instead of the line.
CodeLine_Stripped(st, line) == Emit(st, html_escape(Strip(line)))

\* A line inside a code fence: result.append(html.escape(line))
CodeLine(st, line) == Emit(st, html_escape(line))

ListItem(content) == <<"<li>">> \o inline_format(content) \o <<"</li>">>

\* One iteration of `for line in lines`: the state after the line.
MdLine(st, line) ==
    LET stripped == Strip(line)
    IN
    \* Code blocks
    IF StartsWith(stripped, Fence)
    THEN IF st.in_code
         THEN [Emit(st, <<"</code></pre>">>) EXCEPT !.in_code = FALSE]
         ELSE [Emit(st, <<"<pre><code>">>) EXCEPT !.in_code = TRUE]
    ELSE IF st.in_code
    THEN CodeLine(st, line)
    \* Blockquotes
    ELSE IF StartsWith(stripped, <<">", " ">>)
    THEN [st EXCEPT
            !.in_blockquote = TRUE,
            !.bq_lines = Append(IF st.in_blockquote THEN @ ELSE <<>>,
                                Drop(stripped, 2))]
    ELSE
    LET st1 == flush_blockquote(st)
        h   == HeadingHashes(stripped)
    IN
    \* Headings
    IF h > 0
    THEN LET level == IF h + 1 > 4 THEN 4 ELSE h + 1
         IN  Emit(st1, <<HOpen(level)>> \o inline_format(HeadingText(stripped))
                         \o <<HClose(level)>>)
    \* Horizontal rule
    ELSE IF IsHorizontalRule(stripped)
    THEN Emit(st1, <<"<hr>">>)
    \* Unordered list
    ELSE IF IsUlItem(stripped)
    THEN LET opened == IF st1.in_list THEN st1
                       ELSE [Emit(st1, <<"<ul>">>) EXCEPT !.in_list = TRUE]
         IN  Emit(opened, ListItem(UlContent(stripped)))
    ELSE
    LET st2 == IF st1.in_list
               THEN [Emit(st1, <<"</ul>">>) EXCEPT !.in_list = FALSE]
               ELSE st1
    IN
    \* Ordered list
    IF IsOlItem(stripped)
    THEN LET opened == IF st2.in_ol THEN st2
                       ELSE [Emit(st2, <<"<ol>">>) EXCEPT !.in_ol = TRUE]
         IN  Emit(opened, ListItem(OlContent(stripped)))
    ELSE
    LET st3 == IF st2.in_ol
               THEN [Emit(st2, <<"</ol>">>) EXCEPT !.in_ol = FALSE]
               ELSE st2
    IN
    \* Empty line
    IF stripped = <<>>
    THEN st3
    \* Paragraph
    ELSE Emit(st3, <<"<p>">> \o inline_format(stripped) \o <<"</p>">>)

\* The slip of leaving an open code fence unclosed at the end of the input.
MdClose_NoCodeClose(st) ==
    LET a == flush_blockquote(st)
        b == IF a.in_list THEN Emit(a, <<"</ul>">>) ELSE a
    IN  IF b.in_ol THEN Emit(b, <<"</ol>">>) ELSE b

\* "Close any open elements", after the loop.
MdClose(st) ==
    LET a == flush_blockquote(st)
        b == IF a.in_list THEN Emit(a, <<"</ul>">>) ELSE a
        c == IF b.in_ol THEN Emit(b, <<"</ol>">>) ELSE b
    IN  IF c.in_code THEN Emit(c, <<"</code></pre>">>) ELSE c

RECURSIVE MdLoop(_, _)
MdLoop(st, lines) ==
    IF lines = <<>> THEN st ELSE MdLoop(MdLine(st, Head(lines)), Tail(lines))

\* The separator of the final join: a newline and ten spaces.
JoinSep == <<"\n", " ", " ", " ", " ", " ", " ", " ", " ", " ", " ">>

\* md_to_html(text)
md_to_html(text) ==
    Join(MdClose(MdLoop(MdInit, Split(text, "\n"))).result, JoinSep)

\* ------------------------------------------------------- letter case

LowerMap ==
    [ A |-> "a", B |-> "b", C |-> "c", D |-> "d", E |-> "e", F |-> "f",
      G |-> "g", H |-> "h", I |-> "i", J |-> "j", K |-> "k", L |-> "l",
      M |-> "m", N |-> "n", O |-> "o", P |-> "p", Q |-> "q", R |-> "r",
      S |-> "s", T |-> "t", U |-> "u", V |-> "v", W |-> "w", X |-> "x",
      Y |-> "y", Z |-> "z" ]

UpperMap ==
    [ a |-> "A", b |-> "B", c |-> "C", d |-> "D", e |-> "E", f |-> "F",
      g |-> "G", h |-> "H", i |-> "I", j |-> "J", k |-> "K", l |-> "L",
      m |-> "M", n |-> "N", o |-> "O", p |-> "P", q |-> "Q", r |-> "R",
      s |-> "S", t |-> "T", u |-> "U", v |-> "V", w |-> "W", x |-> "X",
      y |-> "Y", z |-> "Z" ]

IsUpper(c) == c \in DOMAIN LowerMap

IsLower(c) == c \in DOMAIN UpperMap

LowerChar(c) == IF IsUpper(c) THEN LowerMap[c] ELSE c

UpperChar(c) == IF IsLower(c) THEN UpperMap[c] ELSE c

\* str.lower()
Lower(s) == [i \in 1..Len(s) |-> LowerChar(s[i])]

\* str.title(): a letter that follows a letter is lower-cased, any other
\* letter is upper-cased.
Title(s) ==
    [i \in 1..Len(s) |->
        IF i > 1 /\ (IsUpper(s[i - 1]) \/ IsLower(s[i - 1]))
        THEN LowerChar(s[i]) ELSE UpperChar(s[i])]

\* str.replace(a, b) for one-character a and b
ReplaceChar(s, a, b) == [i \in 1..Len(s) |-> IF s[i] = a THEN b ELSE s[i]]

\* ------------------------------------------------------ parse_frontmatter

\* The dict {} .
EmptyMeta == [k \in {} |-> <<>>]

\* meta[key] = val
MetaPut(meta, key, val) ==
    [k \in DOMAIN meta \cup {key} |-> IF k = key THEN val ELSE meta[k]]

\* meta.get(key, default)
MetaGet(meta, key, default) ==
    IF key \in DOMAIN meta THEN meta[key] ELSE default

\* re.match(r'^---\s*\n(.*?)\n---\s*\n(.*)$', content, re.DOTALL): the
\* regular expression's choices, in the order the matcher tries them.  After
\* "---", \s* takes t whitespace characters (as many as it can) and a newline
\* follows; group 1 starts at p and has k characters (as few as it can),
\* followed by "\n---"; the second \s* takes u whitespace characters (as many
\* as it can) and a newline follows; group 2 is the rest.
FmOpen(c) ==
    IF StartsWith(c, <<"-", "-", "-">>)
    THEN {t \in 0..LeadingSpaces(Drop(c, 3)) :
            4 + t <= Len(c) /\ c[4 + t] = "\n"}
    ELSE {}

\* lengths u of the second \s* when the closing "\n---" starts at position j
FmClose(c, j) ==
    IF StartsWithAt(c, j, <<"\n", "-", "-", "-">>)
    THEN {u \in 0..LeadingSpaces(Drop(c, j + 3)) :
            j + 4 + u <= Len(c) /\ c[j + 4 + u] = "\n"}
    ELSE {}

\* lengths k of group 1 when it starts at position p
FmBlock(c, p) == {k \in 0..(Len(c) - p + 1) : FmClose(c, p + k) # {}}

FmMatches(c) == \E t \in FmOpen(c) : FmBlock(c, 5 + t) # {}

\* match.group(1)
FmGroup1(c) ==
    LET t == SetMax({x \in FmOpen(c) : FmBlock(c, 5 + x) # {}})
        p == 5 + t
        k == SetMin(FmBlock(c, p))
    IN  SubSeq(c, p, p + k - 1)

\* match.group(2)
FmGroup2(c) ==
    LET t == SetMax({x \in FmOpen(c) : FmBlock(c, 5 + x) # {}})
        p == 5 + t
        k == SetMin(FmBlock(c, p))
        u == SetMax(FmClose(c, p + k))
    IN  Drop(c, p + k + 4 + u)

\* line.split(':', 1), the part before and the part after the first colon
BeforeColon(line) ==
    SubSeq(line, 1, SetMin({i \in 1..Len(line) : line[i] = ":"}) - 1)

AfterColon(line) == Drop(line, SetMin({i \in 1..Len(line) : line[i] = ":"}))

\* for line in match.group(1).split('\n'): ...
RECURSIVE FmMeta(_, _)
FmMeta(meta, blocklines) ==
    IF blocklines = <<>> THEN meta
    ELSE LET line == Head(blocklines)
         IN  FmMeta(IF \E i \in 1..Len(line) : line[i] = ":"
                    THEN MetaPut(meta, Lower(Strip(BeforeColon(line))),
                                 Strip(AfterColon(line)))
                    ELSE meta,
                    Tail(blocklines))

\* The body the no-match branch returns: `return {}, content`
FmPlainBody(content) == content

\* parse_frontmatter(content): [meta, body]
parse_frontmatter(content) ==
    IF ~FmMatches(content)
    THEN [meta |-> EmptyMeta, body |-> FmPlainBody(content)]
    ELSE [meta |-> FmMeta(EmptyMeta, Split(FmGroup1(content), "\n")),
          body |-> Strip(FmGroup2(content))]

\* ---------------------------------------------------------------- slugify

\* The slip of keeping the word characters ([^\w\s-]): the underscore stays.
SlugKeep_WordChars(c) == IsLower(c) \/ IsDigit(c) \/ IsSpace(c) \/ c = "-" \/ c = "_"

\* re.sub(r'[^a-z0-9\s-]', '', slug)
SlugKeep(c) == IsLower(c) \/ IsDigit(c) \/ IsSpace(c) \/ c = "-"

RECURSIVE SlugFilter(_)
SlugFilter(s) ==
    IF s = <<>> THEN <<>>
    ELSE (IF SlugKeep(Head(s)) THEN <<Head(s)>> ELSE <<>>)
           \o SlugFilter(Tail(s))

\* re.sub(r'[\s]+', '-', slug): each run of whitespace becomes one hyphen
RECURSIVE SpacesToHyphen(_)
SpacesToHyphen(s) ==
    IF s = <<>> THEN <<>>
    ELSE IF IsSpace(Head(s))
         THEN <<"-">> \o SpacesToHyphen(Drop(s, LeadingSpaces(s)))
         ELSE <<Head(s)>> \o SpacesToHyphen(Tail(s))

\* re.sub(r'-+', '-', slug): each run of hyphens becomes one hyphen
RECURSIVE SqueezeHyphens(_)
SqueezeHyphens(s) ==
    IF s = <<>> THEN <<>>
    ELSE IF Head(s) = "-" /\ Len(s) > 1 /\ s[2] = "-"
         THEN SqueezeHyphens(Tail(s))
         ELSE <<Head(s)>> \o SqueezeHyphens(Tail(s))

\* str.strip('-')
RECURSIVE StripHyphens(_)
StripHyphens(s) ==
    IF s # <<>> /\ Head(s) = "-" THEN StripHyphens(Tail(s))
    ELSE IF s # <<>> /\ s[Len(s)] = "-"
         THEN StripHyphens(SubSeq(s, 1, Len(s) - 1))
         ELSE s

\* The slip of removing the other characters last, after the hyphens were
\* collapsed and trimmed.
slugify_FilterLast(title) ==
    SlugFilter(StripHyphens(SqueezeHyphens(SpacesToHyphen(Lower(title)))))

slugify(title) ==
    StripHyphens(SqueezeHyphens(SpacesToHyphen(SlugFilter(Lower(title)))))

\* -------------------------------------------------------------- parse_date

Digits == <<"0", "1", "2", "3", "4", "5", "6", "7", "8", "9">>

DigitVal(c) == (CHOOSE i \in 1..10 : Digits[i] = c) - 1

\* The month names of %B, lower-cased (strptime matches case-insensitively);
\* %b takes the first three letters of each.
MonthNames ==
    << <<"j", "a", "n", "u", "a", "r", "y">>,
       <<"f", "e", "b", "r", "u", "a", "r", "y">>,
       <<"m", "a", "r", "c", "h">>,
       <<"a", "p", "r", "i", "l">>,
       <<"m", "a", "y">>,
       <<"j", "u", "n", "e">>,
       <<"j", "u", "l", "y">>,
       <<"a", "u", "g", "u", "s", "t">>,
       <<"s", "e", "p", "t", "e", "m", "b", "e", "r">>,
       <<"o", "c", "t", "o", "b", "e", "r">>,
       <<"n", "o", "v", "e", "m", "b", "e", "r">>,
       <<"d", "e", "c", "e", "m", "b", "e", "r">> >>

RECURSIVE Flatten(_)
Flatten(ss) == IF ss = <<>> THEN <<>> ELSE Head(ss) \o Flatten(Tail(ss))

\* A partial match of a strptime format: the fields read so far and the text
\* left.  Each directive gives its possible matches in the order the regular
\* expression tries them.
DateStart(s) == << [y |-> 0, m |-> 0, d |-> 0, rest |-> s] >>

Then(opts, Directive(_)) ==
    Flatten([i \in 1..Len(opts) |-> Directive(opts[i])])

\* a literal character of the format
Lit(o, c) ==
    IF o.rest # <<>> /\ Head(o.rest) = c
    THEN << [o EXCEPT !.rest = Tail(@)] >> ELSE <<>>

\* a space of the format: \s+, longest first
Spaces(o) ==
    LET w == LeadingSpaces(o.rest)
    IN  [i \in 1..w |-> [o EXCEPT !.rest = Drop(@, w - i + 1)]]

\* %Y: \d\d\d\d
DirY(o) ==
    IF LeadingDigits(o.rest) >= 4
    THEN << [o EXCEPT
               !.y = DigitVal(o.rest[1]) * 1000 + DigitVal(o.rest[2]) * 100
                       + DigitVal(o.rest[3]) * 10 + DigitVal(o.rest[4]),
               !.rest = Drop(@, 4)] >>
    ELSE <<>>

\* %m: 1[0-2]|0[1-9]|[1-9]
DirM(o) ==
    LET r == o.rest
    IN  (IF Len(r) >= 2 /\ r[1] = "1" /\ r[2] \in {"0", "1", "2"}
         THEN << [o EXCEPT !.m = 10 + DigitVal(r[2]), !.rest = Drop(@, 2)] >>
         ELSE <<>>)
        \o (IF Len(r) >= 2 /\ r[1] = "0" /\ IsDigit(r[2]) /\ r[2] # "0"
            THEN << [o EXCEPT !.m = DigitVal(r[2]), !.rest = Drop(@, 2)] >>
            ELSE <<>>)
        \o (IF Len(r) >= 1 /\ IsDigit(r[1]) /\ r[1] # "0"
            THEN << [o EXCEPT !.m = DigitVal(r[1]), !.rest = Drop(@, 1)] >>
            ELSE <<>>)

\* %d: 3[0-1]|[1-2]\d|0[1-9]|[1-9]| [1-9]
DirD(o) ==
    LET r == o.rest
    IN  (IF Len(r) >= 2 /\ r[1] = "3" /\ r[2] \in {"0", "1"}
         THEN << [o EXCEPT !.d = 30 + DigitVal(r[2]), !.rest = Drop(@, 2)] >>
         ELSE <<>>)
        \o (IF Len(r) >= 2 /\ r[1] \in {"1", "2"} /\ IsDigit(r[2])
            THEN << [o EXCEPT !.d = DigitVal(r[1]) * 10 + DigitVal(r[2]),
                              !.rest = Drop(@, 2)] >>
            ELSE <<>>)
        \o (IF Len(r) >= 2 /\ r[1] = "0" /\ IsDigit(r[2]) /\ r[2] # "0"
            THEN << [o EXCEPT !.d = DigitVal(r[2]), !.rest = Drop(@, 2)] >>
            ELSE <<>>)
        \o (IF Len(r) >= 1 /\ IsDigit(r[1]) /\ r[1] # "0"
            THEN << [o EXCEPT !.d = DigitVal(r[1]), !.rest = Drop(@, 1)] >>
            ELSE <<>>)
        \o (IF Len(r) >= 2 /\ r[1] = " " /\ IsDigit(r[2]) /\ r[2] # "0"
            THEN << [o EXCEPT !.d = DigitVal(r[2]), !.rest = Drop(@, 2)] >>
            ELSE <<>>)

\* %B (full = TRUE) or %b (full = FALSE)
DirMonthName(o, full) ==
    LET name(i) == IF full THEN MonthNames[i] ELSE SubSeq(MonthNames[i], 1, 3)
        hits == {i \in 1..12 :
                   /\ Len(o.rest) >= Len(name(i))
                   /\ Lower(SubSeq(o.rest, 1, Len(name(i)))) = name(i)}
    IN  IF hits = {} THEN <<>>
        ELSE LET i == CHOOSE x \in hits : TRUE
             IN  << [o EXCEPT !.m = i, !.rest = Drop(@, Len(name(i)))] >>

\* '%B %d, %Y' (full = TRUE) and '%b %d, %Y' (full = FALSE)
FmtMonthDayYear(s, full) ==
    Then(Then(Then(Then(Then(Then(DateStart(s),
        LAMBDA o : DirMonthName(o, full)),
        Spaces), DirD), LAMBDA o : Lit(o, ",")), Spaces), DirY)

\* '%Y-%m-%d'
FmtIso(s) ==
    Then(Then(Then(Then(Then(DateStart(s),
        DirY), LAMBDA o : Lit(o, "-")), DirM), LAMBDA o : Lit(o, "-")), DirD)

\* '%d %B %Y'
FmtDayMonthYear(s) ==
    Then(Then(Then(Then(Then(DateStart(s),
        DirD), Spaces), LAMBDA o : DirMonthName(o, TRUE)), Spaces), DirY)

IsLeap(y) == y % 4 = 0 /\ (y % 100 # 0 \/ y % 400 = 0)

DaysIn(y, m) ==
    IF m = 2 THEN (IF IsLeap(y) THEN 29 ELSE 28)
    ELSE IF m \in {4, 6, 9, 11} THEN 30 ELSE 31

\* A datetime at midnight as a number that orders as datetimes do.
DateKey(y, m, d) == y * 10000 + m * 100 + d

\* datetime.min: 0001-01-01 00:00
DatetimeMin == DateKey(1, 1, 1)

\* datetime.strptime(data, fmt), given the format's matches: the first match
\* is taken; ValueError (here -1) when there is none, when text is left over,
\* or when the fields are not a date.
Strptime(opts) ==
    IF opts = <<>> THEN -1
    ELSE LET o == Head(opts)
         IN  IF /\ o.rest = <<>>
                /\ o.y >= 1
                /\ o.d <= DaysIn(o.y, o.m)
             THEN DateKey(o.y, o.m, o.d) ELSE -1

\* datetime.strptime(date_str.strip(), fmt) for each fmt of `formats`
StrptimeEach(date_str) ==
    LET data == Strip(date_str)
    IN  << Strptime(FmtMonthDayYear(data, TRUE)),
           Strptime(FmtIso(data)),
           Strptime(FmtMonthDayYear(data, FALSE)),
           Strptime(FmtDayMonthYear(data)) >>

\* parse_date(date_str): the formats in order, datetime.min when all fail.
parse_date(date_str) ==
    LET tries == StrptimeEach(date_str)
        ok == {i \in 1..4 : tries[i] # -1}
    IN  IF ok = {} THEN DatetimeMin ELSE tries[SetMin(ok)]

\* ------------------------------------------------------- HTML generators

K_title == <<"t", "i", "t", "l", "e">>

K_date == <<"d", "a", "t", "e">>

K_tags == <<"t", "a", "g", "s">>

K_subtitle == <<"s", "u", "b", "t", "i", "t", "l", "e">>

K_excerpt == <<"e", "x", "c", "e", "r", "p", "t">>

Untitled == <<"U", "n", "t", "i", "t", "l", "e", "d">>

\* The middle dot U+00B7 of the post's meta line.
MiddleDot == "U+00B7"

\* generate_post_html(meta, body_html): the parts of the page that vary.
generate_post_html(meta, body_html) ==
    LET tags_str == MetaGet(meta, K_tags, <<>>)
        date     == MetaGet(meta, K_date, <<>>)
        title    == MetaGet(meta, K_title, Untitled)
        subtitle == MetaGet(meta, K_subtitle, <<>>)
        meta_line == IF tags_str # <<>>
                     THEN date \o <<" ", MiddleDot, " ">> \o tags_str
                     ELSE date
    IN  [title       |-> html_escape(title),
         description |-> html_escape(MetaGet(meta, K_excerpt, <<>>)),
         meta_line   |-> html_escape(meta_line),
         subtitle_html |-> IF subtitle # <<>>
                           THEN <<"<p class=\"post-subtitle\">">> \o subtitle
                                  \o <<"</p>">>
                           ELSE <<>>,
         body_html   |-> body_html]

\* generate_index_item(meta, slug): the parts of the item that vary.
generate_index_item(meta, slug) ==
    LET tags_str == MetaGet(meta, K_tags, <<>>)
        tags == IF tags_str # <<>> THEN Split(tags_str, ",") ELSE <<>>
    IN  [date    |-> html_escape(MetaGet(meta, K_date, <<>>)),
         href    |-> <<"posts/">> \o slug \o <<".html">>,
         title   |-> html_escape(MetaGet(meta, K_title, Untitled)),
         excerpt |-> html_escape(MetaGet(meta, K_excerpt, <<>>)),
         tags    |-> [i \in 1..Len(tags) |-> html_escape(Strip(tags[i]))]]

\* generate_index(posts): the items of the page, in order.
generate_index(posts) ==
    [i \in 1..Len(posts) |-> generate_index_item(posts[i].meta, posts[i].slug)]

\* ------------------------------------------------------------------ build

\* md_file.stem: the file name without its last suffix
Stem(name) ==
    LET dots == {i \in 2..Len(name) : name[i] = "."}
    IN  IF dots = {} THEN name ELSE SubSeq(name, 1, SetMax(dots) - 1)

\* What one iteration of `for md_file in drafts` computes from the file's
\* name and text: the post record and the page written for it.
DraftPost(name, content) ==
    LET fm    == parse_frontmatter(content)
        meta  == IF MetaGet(fm.meta, K_title, <<>>) = <<>>
                 THEN MetaPut(fm.meta, K_title,
                              Title(ReplaceChar(Stem(name), "-", " ")))
                 ELSE fm.meta
        slug  == slugify(meta[K_title])
    IN  [meta |-> meta,
         slug |-> slug,
         out_name |-> slug \o <<".", "h", "t", "m", "l">>,
         post_html |-> generate_post_html(meta, md_to_html(fm.body))]

\* title 'A b', 'March 1, 2026', the body a one-item list
DocMarch ==
    <<"-", "-", "-", "\n", "t", "i", "t", "l", "e", ":", " ", "A", " ",
      "b", "\n", "d", "a", "t", "e", ":", " ", "M", "a", "r", "c", "h",
      " ", "1", ",", " ", "2", "0", "2", "6", "\n", "-", "-", "-", "\n",
      "-", " ", "a", "\n">>

\* title 'a-b' (the slug of 'A b' too), 'January 1, 2026'
DocJanuary ==
    <<"-", "-", "-", "\n", "t", "i", "t", "l", "e", ":", " ", "a", "-",
      "b", "\n", "d", "a", "t", "e", ":", " ", "J", "a", "n", "u", "a",
      "r", "y", " ", "1", ",", " ", "2", "0", "2", "6", "\n", "-", "-",
      "-", "\n", "p">>

\* title 'C', '2026-03-01' (the day of DocMarch in another format)
DocIso ==
    <<"-", "-", "-", "\n", "T", "i", "t", "l", "e", ":", " ", "C", "\n",
      "d", "a", "t", "e", ":", " ", "2", "0", "2", "6", "-", "0", "3", "-",
      "0", "1", "\n", "-", "-", "-", "\n", "p">>

\* no frontmatter: the title comes from the file name, the date is missing
DocPlain ==
    <<" ", "p", "\n">>

\* title 'E', '0001-01-01' (the first day datetime can hold)
DocYearOne ==
    <<"-", "-", "-", "\n", "t", "i", "t", "l", "e", ":", " ", "E", "\n",
      "d", "a", "t", "e", ":", " ", "0", "0", "0", "1", "-", "0", "1", "-",
      "0", "1", "\n", "-", "-", "-", "\n", "p">>

\* title 'F', a date no format accepts
DocSoon ==
    <<"-", "-", "-", "\n", "t", "i", "t", "l", "e", ":", " ", "F", "\n",
      "d", "a", "t", "e", ":", " ", "s", "o", "o", "n", "\n", "-", "-",
      "-", "\n", "p">>

\* The texts a draft file may hold.
DocSet == {DocMarch, DocJanuary, DocIso, DocPlain, DocYearOne, DocSoon}

\* The names a draft file may have (DRAFTS_DIR.glob('*.md')).
FileNames == { <<"x", ".", "m", "d">>,
               <<"m", "y", "-", "p", "o", "s", "t", ".", "m", "d">>,
               <<"z", ".", "m", "d">> }

\* The sort key of build: parse_date(p[0].get('date', ''))
PostKey(post) == parse_date(MetaGet(post.meta, K_date, <<>>))

\* list.sort computes the key of each element once.
RECURSIVE PostKeys(_)
PostKeys(posts) ==
    IF posts = <<>> THEN <<>>
    ELSE <<PostKey(Head(posts))>> \o PostKeys(Tail(posts))

\* Where a stable descending sort puts each element: element i comes after
\* the elements with a larger key and the earlier elements with an equal key.
SortedPlace(keys, i) ==
    1 + Cardinality({j \in 1..Len(keys) :
                        keys[j] > keys[i] \/ (keys[j] = keys[i] /\ j < i)})

\* The slip of sorting ascending and reversing the list: posts with equal
\* keys come out in reverse order.
SortNewestFirst_TiesReversed(posts) ==
    LET keys == PostKeys(posts)
        place(i) == 1 + Cardinality({j \in 1..Len(keys) :
                          keys[j] > keys[i] \/ (keys[j] = keys[i] /\ j > i)})
    IN  [k \in 1..Len(posts) |->
            posts[CHOOSE i \in 1..Len(posts) : place(i) = k]]

\* list.sort(key=..., reverse=True): descending by key, and stable (posts
\* with equal keys keep the order they had).
SortNewestFirst(posts) ==
    LET keys == PostKeys(posts)
    IN  [k \in 1..Len(posts) |->
            posts[CHOOSE i \in 1..Len(posts) : SortedPlace(keys, i) = k]]

\* A directory with no files.
EmptyDir == [n \in {} |-> <<>>]

\* The slip of not writing a file that exists already.
DirWrite_KeepsExisting(dir, name, content) ==
    [n \in DOMAIN dir \cup {name} |-> IF n \in DOMAIN dir THEN dir[n] ELSE content]

\* Path.write_text: the directory with the file written
DirWrite(dir, name, content) ==
    [n \in DOMAIN dir \cup {name} |-> IF n = name THEN content ELSE dir[n]]

\* Path.unlink for each name of a set: the directory without them
DirRemove(dir, names) == [n \in DOMAIN dir \ names |-> dir[n]]

EndsWith(s, suffix) ==
    Len(s) >= Len(suffix)
      /\ SubSeq(s, Len(s) - Len(suffix) + 1, Len(s)) = suffix

\* dir.glob('*' + suffix): the names of the directory it yields
Glob(dir, suffix) == {n \in DOMAIN dir : EndsWith(n, suffix)}

\* The orders in which a glob may yield a set of names.
Enumerations(names) ==
    {e \in [1..Cardinality(names) -> names] :
        \A i, j \in DOMAIN e : i # j => e[i] # e[j]}

\* ---------------------------------------------------------------- state

VARIABLES
    \* md_to_html
    lines,          \* text.split('\n')
    pos,            \* number of lines the loop has consumed
    result, in_list, in_ol, in_code, in_blockquote, bq_lines,
    md_done,        \* the statements after the loop have run
    \* the file system
    drafts_dir,     \* DRAFTS_DIR: file name -> text
    posts_dir,      \* POSTS_DIR: file name -> page
    index_file,     \* INDEX_FILE: <<>> when absent, else <<its items>>
    \* a run of the program
    pc,             \* "idle", "build", "loop", "done" (index written),
                    \* "nothing" (build returned early)
    drafts,         \* build's list `drafts`
    posts,          \* build's list `posts`
    \* a call of parse_frontmatter
    fm_content,     \* its argument
    fm_returned,    \* it has returned
    fm_meta,        \* the dict it returned
    fm_body,        \* the body it returned
    \* a call of slugify
    sl_title,       \* its argument
    sl_returned,    \* it has returned
    sl_slug,        \* the slug it returned
    \* a call of inline_format
    if_text,        \* its argument
    if_spans,       \* the spans and the plain text the argument is made of
    if_returned,    \* it has returned
    if_out          \* the text it returned

mdvars == <<lines, pos, result, in_list, in_ol, in_code, in_blockquote,
            bq_lines, md_done>>

fsvars == <<drafts_dir, posts_dir, index_file>>

runvars == <<pc, drafts, posts>>

fmvars == <<fm_content, fm_returned, fm_meta, fm_body>>

slvars == <<sl_title, sl_returned, sl_slug>>

ifvars == <<if_text, if_spans, if_returned, if_out>>

\* the calls of single functions
callvars == <<fmvars, slvars, ifvars>>

vars == <<mdvars, fsvars, runvars, callvars>>

\* ------------------------------------------------ md_to_html as a machine

\* The body lines the converter is fed.
LineSet ==
    { <<"-", " ", "a">>,
      <<"*", " ", "b">>,
      <<"1", ".", " ", "c">>,
      <<">", " ", "q">>,
      Fence,
      <<"#", " ", "h">>,
      <<"-", "-", "-">>,
      <<>>,
      <<"p">>,
      <<" ", "<", "*", "x", "*">>,
      <<"-", " ">> }

Bodies == UNION {[1..n -> LineSet] : n \in 1..MaxLines}

MdState ==
    [result |-> result, in_list |-> in_list, in_ol |-> in_ol,
     in_code |-> in_code, in_blockquote |-> in_blockquote,
     bq_lines |-> bq_lines]

MdSet(st) ==
    /\ result' = st.result
    /\ in_list' = st.in_list
    /\ in_ol' = st.in_ol
    /\ in_code' = st.in_code
    /\ in_blockquote' = st.in_blockquote
    /\ bq_lines' = st.bq_lines

\* The program is not running while md_to_html is observed on its own.
NoRun ==
    /\ drafts_dir = EmptyDir
    /\ posts_dir = EmptyDir
    /\ index_file = <<>>
    /\ pc = "idle"
    /\ drafts = <<>>
    /\ posts = <<>>

\* parse_frontmatter is not observed on its own.
NoFm ==
    /\ fm_content = <<>>
    /\ fm_returned = FALSE
    /\ fm_meta = EmptyMeta
    /\ fm_body = <<>>

\* slugify is not observed on its own.
NoSlug ==
    /\ sl_title = <<>>
    /\ sl_returned = FALSE
    /\ sl_slug = <<>>

\* inline_format is not observed on its own.
NoInline ==
    /\ if_text = <<>>
    /\ if_spans = <<>>
    /\ if_returned = FALSE
    /\ if_out = <<>>

MdStart ==
    /\ NoRun
    /\ NoFm
    /\ NoSlug
    /\ NoInline
    /\ lines \in Bodies
    /\ pos = 0
    /\ result = MdInit.result
    /\ in_list = MdInit.in_list
    /\ in_ol = MdInit.in_ol
    /\ in_code = MdInit.in_code
    /\ in_blockquote = MdInit.in_blockquote
    /\ bq_lines = MdInit.bq_lines
    /\ md_done = FALSE

\* for line in lines: ...
MdProcessLine ==
    /\ ~md_done
    /\ pos < Len(lines)
    /\ MdSet(MdLine(MdState, lines[pos + 1]))
    /\ pos' = pos + 1
    /\ UNCHANGED <<lines, md_done, fsvars, runvars, callvars>>

\* the statements after the loop
MdFinish ==
    /\ ~md_done
    /\ pos = Len(lines)
    /\ MdSet(MdClose(MdState))
    /\ md_done' = TRUE
    /\ UNCHANGED <<lines, pos, fsvars, runvars, callvars>>

MdNext == MdProcessLine \/ MdFinish

SpecMd == MdStart /\ [][MdNext]_vars

\* ------------------------------------------------ md_to_html: properties

\* The loop is consuming line lines[pos + 1] in this step.
MdConsumes == ~md_done /\ pos < Len(lines) /\ pos' = pos + 1

\* The line being consumed, and what the code tests it by.
MdCurrent == lines[pos + 1]

\* The fragments this step appended to result.
MdEmitted == SubSeq(result', Len(result) + 1, Len(result'))

IsBlockquoteFragment(frag) == frag # <<>> /\ Head(frag) = "<blockquote><p>"

BlockquoteFragment(run) ==
    <<"<blockquote><p>">> \o inline_format(Join(run, <<" ">>))
        \o <<"</p></blockquote>">>

\* C1: whenever a <ul> is open and the next line is not an unordered-list
\* item, the first fragment emitted while processing that line is </ul>,
\* whatever kind the line is.
C1_ListClosedBeforeNextLine ==
    [][ (MdConsumes /\ in_list /\ ~IsUlItem(Strip(MdCurrent)))
          => (MdEmitted # <<>> /\ Head(MdEmitted) = <<"</ul>">>) ]_vars

\* C2: whenever a blockquote run is being accumulated and the next line does
\* not start with "> ", any fragment emitted for that line comes after the
\* flushed run: the first fragment emitted in the step is the blockquote.
C2_BlockquoteFlushedFirst ==
    [][ (/\ MdConsumes
         /\ in_blockquote
         /\ ~StartsWith(Strip(MdCurrent), <<">", " ">>)
         /\ MdEmitted # <<>>)
          => IsBlockquoteFragment(Head(MdEmitted)) ]_vars

\* Every open fragment of result is followed by a close fragment, and no
\* prefix of result holds more closes than opens.
Terminated(open, close) ==
    /\ \A i \in 1..Len(result) :
          result[i] = open => \E j \in (i + 1)..Len(result) : result[j] = close
    /\ \A n \in 0..Len(result) :
          Cardinality({i \in 1..n : result[i] = close})
            <= Cardinality({i \in 1..n : result[i] = open})

\* What the statements after the loop must append, in order.
ClosingFragments ==
    (IF in_blockquote THEN <<BlockquoteFragment(bq_lines)>> ELSE <<>>)
      \o (IF in_list THEN << <<"</ul>">> >> ELSE <<>>)
      \o (IF in_ol THEN << <<"</ol>">> >> ELSE <<>>)
      \o (IF in_code THEN << <<"</code></pre>">> >> ELSE <<>>)

\* C3: md_to_html leaves nothing unterminated: in the final result every
\* <ul>, <ol> and <pre><code> has its close after it; an accumulated
\* blockquote run leaves the accumulator only as a blockquote fragment
\* holding the whole run; and the statements after the loop close what is
\* still open in the order blockquote, unordered list, ordered list, code
\* fence.
C3_NothingUnterminated ==
    /\ [](md_done =>
            /\ Terminated(<<"<ul>">>, <<"</ul>">>)
            /\ Terminated(<<"<ol>">>, <<"</ol>">>)
            /\ Terminated(<<"<pre><code>">>, <<"</code></pre>">>)
            /\ ~in_blockquote
            /\ bq_lines = <<>>)
    /\ [][ (in_blockquote /\ (~in_blockquote' \/ bq_lines' = <<>>))
             => (/\ MdEmitted # <<>>
                 /\ Head(MdEmitted) = BlockquoteFragment(bq_lines)) ]_vars
    /\ [][ (in_blockquote /\ in_blockquote')
             => (/\ Len(bq_lines') >= Len(bq_lines)
                 /\ SubSeq(bq_lines', 1, Len(bq_lines)) = bq_lines) ]_vars
    /\ [][ (~md_done /\ md_done') => MdEmitted = ClosingFragments ]_vars

\* C3's case: the input ends inside a code fence opened while a list is open
\* and a blockquote run is pending, and all three have been closed in order.
C3_Witness ==
    /\ md_done
    /\ in_list
    /\ in_code
    /\ Len(result) >= 3
    /\ IsBlockquoteFragment(result[Len(result) - 2])
    /\ result[Len(result) - 1] = <<"</ul>">>
    /\ result[Len(result)] = <<"</code></pre>">>

ActiveModes ==
    (IF in_list THEN 1 ELSE 0) + (IF in_ol THEN 1 ELSE 0)
      + (IF in_code THEN 1 ELSE 0) + (IF in_blockquote THEN 1 ELSE 0)

\* C4: after any prefix of the input at most one of the modes in_list, in_ol,
\* in_code and in_blockquote is active.
C4_AtMostOneMode == ActiveModes <= 1

\* What html.escape must make of one character.
EscapedAs(c, e) ==
    /\ c = "&" => e = "&amp;"
    /\ c = "<" => e = "&lt;"
    /\ c = ">" => e = "&gt;"
    /\ c = "\"" => e = "&quot;"
    /\ c = "'" => e = "&#x27;"
    /\ c \notin {"&", "<", ">", "\"", "'"} => e = c

\* C5: a line consumed inside a code fence that is not a fence delimiter is
\* emitted as exactly one fragment, the line itself (unstripped) with each
\* character HTML-escaped and nothing else rewritten, and the list and
\* blockquote modes are left as they were.
C5_CodeLinesEscapedVerbatim ==
    [][ (MdConsumes /\ in_code /\ ~StartsWith(Strip(MdCurrent), Fence))
          => (/\ Len(MdEmitted) = 1
              /\ Len(MdEmitted[1]) = Len(MdCurrent)
              /\ \A k \in 1..Len(MdCurrent) :
                    EscapedAs(MdCurrent[k], MdEmitted[1][k])
              /\ UNCHANGED <<in_code, in_list, in_ol, in_blockquote,
                             bq_lines>>) ]_vars

\* C5's case: a line with leading space, a '<' and an asterisk pair was
\* consumed inside a fence.
C5_Witness ==
    /\ in_code
    /\ pos >= 2
    /\ lines[pos] = <<" ", "<", "*", "x", "*">>
    /\ result[Len(result)] = <<" ", "&lt;", "*", "x", "*">>

\* A line starting with "- " that the code takes for a list item.
IsDashItem(line) == StartsWith(line, <<"-", " ">>) /\ IsUlItem(Strip(line))

\* lines[a..b] is a run of "- " item lines with no list item line of either
\* marker next to it.
IsDashRun(a, b) ==
    /\ \A k \in a..b : IsDashItem(lines[k])
    /\ a > 1 => ~IsUlItem(Strip(lines[a - 1]))
    /\ b < Len(lines) => ~IsUlItem(Strip(lines[b + 1]))

\* C6: in the final result, a maximal run of n >= 1 lines starting with "- ",
\* met outside a code fence with no list open, produced one <ul>, then the n
\* <li> fragments of its lines in order, then </ul> right after them.
C6_OneListPerRun ==
    md_done =>
      \A a \in 1..Len(lines) : \A b \in a..Len(lines) :
        LET pre  == MdLoop(MdInit, SubSeq(lines, 1, a - 1))
            base == Len(flush_blockquote(pre).result)
            n    == b - a + 1
        IN  (IsDashRun(a, b) /\ ~pre.in_code /\ ~pre.in_list)
              => /\ Len(result) >= base + n + 2
                 /\ result[base + 1] = <<"<ul>">>
                 /\ \A j \in 1..n :
                       result[base + 1 + j]
                         = <<"<li>">>
                             \o inline_format(Strip(Drop(lines[a + j - 1], 2)))
                             \o <<"</li>">>
                 /\ result[base + n + 2] = <<"</ul>">>

\* ------------------------------------------------------ a run of the program

\* md_to_html is not observed on its own while the program runs.
NoMd ==
    /\ lines = <<>>
    /\ pos = 0
    /\ result = <<>>
    /\ in_list = FALSE
    /\ in_ol = FALSE
    /\ in_code = FALSE
    /\ in_blockquote = FALSE
    /\ bq_lines = <<>>
    /\ md_done = FALSE

\* Before the run: the author's drafts, no output yet.
Init ==
    /\ NoMd
    /\ NoFm
    /\ NoSlug
    /\ NoInline
    /\ drafts_dir \in UNION {[names -> DocSet] : names \in SUBSET FileNames}
    /\ posts_dir = EmptyDir
    /\ index_file = <<>>
    /\ pc = "idle"
    /\ drafts = <<>>
    /\ posts = <<>>

Html == <<".", "h", "t", "m", "l">>

Md == <<".", "m", "d">>

\* The slip of cleaning the wrong directory: the drafts are unlinked.
MainClean_UnlinksDrafts ==
    /\ pc = "idle"
    /\ drafts_dir' = DirRemove(drafts_dir, Glob(drafts_dir, Md))
    /\ pc' = "build"
    /\ UNCHANGED <<posts_dir, index_file, drafts, posts, mdvars, callvars>>

\* python build.py --clean: every *.html file of POSTS_DIR is unlinked, then
\* build() is called.
MainClean ==
    /\ pc = "idle"
    /\ posts_dir' = DirRemove(posts_dir, Glob(posts_dir, Html))
    /\ pc' = "build"
    /\ UNCHANGED <<drafts_dir, index_file, drafts, posts, mdvars, callvars>>

\* python build.py: build() is called.
MainPlain ==
    /\ pc = "idle"
    /\ pc' = "build"
    /\ UNCHANGED <<fsvars, drafts, posts, mdvars, callvars>>

\* build(): drafts = list(DRAFTS_DIR.glob('*.md')), in whatever order the
\* file system yields them; with no drafts build returns.
BuildGlob ==
    /\ pc = "build"
    /\ \E e \in Enumerations(Glob(drafts_dir, Md)) :
          /\ drafts' = e
          /\ pc' = IF e = <<>> THEN "nothing" ELSE "loop"
    /\ posts' = <<>>
    /\ UNCHANGED <<fsvars, mdvars, callvars>>

\* One iteration of `for md_file in drafts`.
BuildDraft ==
    /\ pc = "loop"
    /\ Len(posts) < Len(drafts)
    /\ LET md_file == drafts[Len(posts) + 1]
           p == DraftPost(md_file, drafts_dir[md_file])
       IN  /\ posts_dir' = DirWrite(posts_dir, p.out_name, p.post_html)
           /\ posts' = Append(posts, [meta |-> p.meta, slug |-> p.slug])
    /\ UNCHANGED <<drafts_dir, index_file, pc, drafts, mdvars, callvars>>

\* After the loop: posts.sort(...), generate_index, INDEX_FILE.write_text.
BuildIndex ==
    /\ pc = "loop"
    /\ Len(posts) = Len(drafts)
    /\ posts' = SortNewestFirst(posts)
    /\ index_file' = << generate_index(posts') >>
    /\ pc' = "done"
    /\ UNCHANGED <<drafts_dir, posts_dir, drafts, mdvars, callvars>>

Next ==
    \/ MainClean
    \/ MainPlain
    \/ BuildGlob
    \/ BuildDraft
    \/ BuildIndex

Spec == Init /\ [][Next]_vars

\* ------------------------------------------------------- build: properties

\* What build writes when the glob yields the drafts of dir in the order e:
\* the post files (a later write to a name replaces an earlier one) and the
\* items of the index.
RECURSIVE FilesWritten(_, _, _)
FilesWritten(dir, e, out) ==
    IF e = <<>> THEN out
    ELSE LET p == DraftPost(Head(e), dir[Head(e)])
         IN  FilesWritten(dir, Tail(e), DirWrite(out, p.out_name, p.post_html))

RECURSIVE PostsOf(_, _)
PostsOf(dir, e) ==
    IF e = <<>> THEN <<>>
    ELSE LET p == DraftPost(Head(e), dir[Head(e)])
         IN  <<[meta |-> p.meta, slug |-> p.slug]>> \o PostsOf(dir, Tail(e))

BuildOutput(dir, e) ==
    [files |-> FilesWritten(dir, e, EmptyDir),
     index |-> generate_index(SortNewestFirst(PostsOf(dir, e)))]

\* The index lists posts[k] at place k.
DateOf(post) == MetaGet(post.meta, K_date, <<>>)

\* One of the accepted formats matches the date string.
IsValidDate(date_str) == \E i \in 1..4 : StrptimeEach(date_str)[i] # -1

\* C7: after build, the index lists every processed post exactly once, in
\* non-increasing order of parse_date of its date, and posts with equal
\* keys in the order their drafts were enumerated: the items of the index
\* are the posts of the enumerated drafts under a one-to-one rearrangement
\* that is newest-first and keeps ties in enumeration order.
C7_IndexNewestFirstStable ==
    pc = "done" =>
      LET entries == PostsOf(drafts_dir, drafts)
          keys    == PostKeys(entries)
          wanted  == generate_index(entries)
          n       == Len(drafts)
      IN  /\ index_file # <<>>
          /\ Len(index_file[1]) = n
          /\ \E pi \in Enumerations(1..n) :
                /\ \A k \in 1..n : index_file[1][k] = wanted[pi[k]]
                /\ \A k, l \in 1..n : k < l => keys[pi[k]] >= keys[pi[l]]
                /\ \A k, l \in 1..n :
                      (k < l /\ keys[pi[k]] = keys[pi[l]]) => pi[k] < pi[l]

\* C7's case: three drafts were built, the first enumerated is older than
\* the other two, and those two have equal keys.
C7_Witness ==
    /\ pc = "done"
    /\ Len(drafts) = 3
    /\ LET keys == PostKeys(PostsOf(drafts_dir, drafts))
       IN  keys[1] < keys[2] /\ keys[2] = keys[3] /\ keys[1] > DatetimeMin

\* C8: the output of build (the post files with their contents, and the index
\* with its entry order) is the same whatever order the drafts are enumerated
\* in: what this run wrote is what every other enumeration would have written.
C8_EnumerationOrderIrrelevant ==
    pc = "done" =>
      \A e \in Enumerations(Glob(drafts_dir, Md)) :
        LET out == BuildOutput(drafts_dir, e)
        IN  /\ index_file = << out.index >>
            /\ DOMAIN out.files \subseteq DOMAIN posts_dir
            /\ \A name \in DOMAIN out.files : posts_dir[name] = out.files[name]

\* C9: parse_date gives the minimum sentinel for every date string no format
\* accepts (the empty string too), and in the index every post with such a
\* date comes after every post whose date is valid.
C9_UnparseableDatesLast ==
    pc = "done" =>
      /\ index_file = << generate_index(posts) >>
      /\ \A k, l \in 1..Len(posts) :
            (IsValidDate(DateOf(posts[k])) /\ ~IsValidDate(DateOf(posts[l])))
              => (PostKey(posts[l]) = DatetimeMin /\ k < l)

\* ------------------------------------- parse_frontmatter on its own

\* The lines a document text is made of.
FmLineSet ==
    { <<"-", "-", "-">>,
      <<"-", "-", "-", " ">>,
      <<"K", ":", " ", "v">>,
      <<"k", ":", "x", ":", "y">>,
      <<"b">>,
      <<>>,
      <<" ", "c", " ">>,
      <<" ", "A", " ", ":", " ">> }

\* The texts of up to n lines joined by newlines.
FmTexts(n) ==
    {Join(ls, <<"\n">>) : ls \in UNION {[1..k -> FmLineSet] : k \in 1..n}}

\* The document texts: up to MaxFmLines lines, or a '---' line, one line and
\* a '---' line in front of a shorter text.
FmDocs ==
    FmTexts(MaxFmLines)
      \cup {Join(<< <<"-", "-", "-">>, l, <<"-", "-", "-">>, d>>, <<"\n">>) :
               l \in FmLineSet, d \in FmTexts(MaxFmLines - 1)}

FmStart ==
    /\ NoMd
    /\ NoRun
    /\ NoSlug
    /\ NoInline
    /\ fm_content \in FmDocs
    /\ fm_returned = FALSE
    /\ fm_meta = EmptyMeta
    /\ fm_body = <<>>

\* meta, body = parse_frontmatter(content)
FmCall ==
    /\ ~fm_returned
    /\ LET r == parse_frontmatter(fm_content)
       IN  fm_meta' = r.meta /\ fm_body' = r.body
    /\ fm_returned' = TRUE
    /\ UNCHANGED <<fm_content, mdvars, fsvars, runvars, slvars, ifvars>>

FmNext == FmCall

SpecFm == FmStart /\ [][FmNext]_vars

\* A '---' line: three hyphens, then at most whitespace.
IsDelimiterLine(line) ==
    StartsWith(line, <<"-", "-", "-">>) /\ Strip(Drop(line, 3)) = <<>>

\* The text begins with a '---' line and has another '---' line after it.
HasDelimiterPair(content) ==
    LET ls == Split(content, "\n")
    IN  /\ IsDelimiterLine(ls[1])
        /\ \E j \in 2..Len(ls) : IsDelimiterLine(ls[j])

\* C10: for a document text that does not begin with a leading delimiter
\* pair, parse_frontmatter returns empty metadata and the original text with
\* leading and trailing whitespace trimmed.
C10_NoFrontmatterBodyTrimmed ==
    (fm_returned /\ ~HasDelimiterPair(fm_content))
      => (fm_meta = EmptyMeta /\ fm_body = Strip(fm_content))

\* The keys of meta as 'key: value' lines between '---' lines, in front of
\* the body; keys is the order the keys are written in.
FmSerialize(meta, keys, body) ==
    Join(<< <<"-", "-", "-">> >>
           \o [i \in 1..Len(keys) |-> keys[i] \o <<":", " ">> \o meta[keys[i]]]
           \o << <<"-", "-", "-">>, body >>,
         <<"\n">>)

\* C11: for every document with a valid frontmatter block, parsing it,
\* writing the resulting keys back as 'key: value' lines between '---' lines
\* in front of the body, and parsing that text again gives the same metadata
\* mapping.
C11_FrontmatterRoundTrip ==
    (fm_returned /\ FmMatches(fm_content))
      => \A keys \in Enumerations(DOMAIN fm_meta) :
            parse_frontmatter(FmSerialize(fm_meta, keys, fm_body)).meta = fm_meta

\* ------------------------------------------------ slugify on its own

\* The characters of the titles slugify is fed.
TitleChars == {"a", "B", "1", " ", "-", "!", "\t", "_"}

Titles == UNION {[1..n -> TitleChars] : n \in 0..MaxTitleLen}

SlugStart ==
    /\ NoMd
    /\ NoRun
    /\ NoFm
    /\ NoInline
    /\ sl_title \in Titles
    /\ sl_returned = FALSE
    /\ sl_slug = <<>>

\* slug = slugify(title)
SlugCall ==
    /\ ~sl_returned
    /\ sl_slug' = slugify(sl_title)
    /\ sl_returned' = TRUE
    /\ UNCHANGED <<sl_title, mdvars, fsvars, runvars, fmvars, ifvars>>

SlugNext == SlugCall

SpecSlug == SlugStart /\ [][SlugNext]_vars

\* C12: slugify applied to its own output gives that output again.
C12_SlugifyFixedPoint ==
    sl_returned => slugify(sl_slug) = sl_slug

\* C12's case: the title was changed by slugify in every way slugify changes
\* a title (a letter lowered, a character removed, whitespace and hyphens
\* collapsed and trimmed), and a slug came out.
C12_Witness ==
    /\ sl_returned
    /\ sl_title = <<"-", "B", " ", "!">>
    /\ sl_slug = <<"b">>

\* C13: the result of slugify contains only lowercase letters, digits and
\* hyphens, has no two adjacent hyphens, and neither starts nor ends with a
\* hyphen.
C13_SlugAlphabet ==
    sl_returned =>
      /\ \A i \in 1..Len(sl_slug) :
            IsLower(sl_slug[i]) \/ IsDigit(sl_slug[i]) \/ sl_slug[i] = "-"
      /\ \A i \in 1..(Len(sl_slug) - 1) :
            ~(sl_slug[i] = "-" /\ sl_slug[i + 1] = "-")
      /\ sl_slug # <<>> => (sl_slug[1] # "-" /\ sl_slug[Len(sl_slug)] # "-")

\* C13's case: a title with an upper-case letter, a removed character between
\* whitespace and a hyphen, and a hyphen at the end.
C13_Witness ==
    /\ sl_returned
    /\ sl_title = <<"B", " ", "!", "-">>
    /\ sl_slug = <<"b">>

\* -------------------------------------- md_to_html on horizontal rules

\* Body lines with rules of three and more characters.
HrLineSet ==
    { <<"-", "-", "-", "-">>,
      <<"*", "*", "*", "*", "*">>,
      <<"_", "_", "_">>,
      <<" ", "-", "-", "-", " ">>,
      <<"-", " ", "a">>,
      <<">", " ", "q">>,
      Fence,
      <<"p">> }

HrBodies == UNION {[1..n -> HrLineSet] : n \in 1..MaxLines}

HrStart ==
    /\ NoRun
    /\ NoFm
    /\ NoSlug
    /\ NoInline
    /\ lines \in HrBodies
    /\ pos = 0
    /\ result = MdInit.result
    /\ in_list = MdInit.in_list
    /\ in_ol = MdInit.in_ol
    /\ in_code = MdInit.in_code
    /\ in_blockquote = MdInit.in_blockquote
    /\ bq_lines = MdInit.bq_lines
    /\ md_done = FALSE

SpecHr == HrStart /\ [][MdNext]_vars

\* Three or more repetitions of one character among hyphen, asterisk and
\* underscore.
IsRuleLine(stripped) ==
    /\ Len(stripped) >= 3
    /\ stripped[1] \in {"-", "*", "_"}
    /\ \A i \in 1..Len(stripped) : stripped[i] = stripped[1]

\* C14: outside a code fence, a line that after trimming consists solely of
\* three or more repetitions of one of hyphen, asterisk and underscore emits
\* exactly one <hr> fragment and nothing else (after the blockquote run that
\* was pending, if any, is flushed).
C14_RuleLineEmitsHr ==
    [][ (MdConsumes /\ ~in_code /\ IsRuleLine(Strip(MdCurrent)))
          => MdEmitted = (IF in_blockquote
                          THEN <<BlockquoteFragment(bq_lines)>> ELSE <<>>)
                           \o << <<"<hr>">> >> ]_vars

\* ------------------------------------------- runs of the program in turn

\* The drafts the author keeps while the program is run again and again.
RunFileNames == {<<"x", ".", "m", "d">>, <<"z", ".", "m", "d">>}

RunDocSet == {DocMarch, DocJanuary, DocPlain}

RunsInit ==
    /\ NoMd
    /\ NoFm
    /\ NoSlug
    /\ NoInline
    /\ drafts_dir \in UNION {[names -> RunDocSet] : names \in SUBSET RunFileNames}
    /\ posts_dir = EmptyDir
    /\ index_file = <<>>
    /\ pc = "idle"
    /\ drafts = <<>>
    /\ posts = <<>>

\* build() has returned and the process ends; the next run starts afresh.
MainExit ==
    /\ pc \in {"done", "nothing"}
    /\ pc' = "idle"
    /\ drafts' = <<>>
    /\ posts' = <<>>
    /\ UNCHANGED <<fsvars, mdvars, callvars>>

\* Between two runs the author writes a draft.
AuthorWritesDraft ==
    /\ pc = "idle"
    /\ \E name \in RunFileNames, doc \in RunDocSet :
          /\ ~(name \in DOMAIN drafts_dir /\ drafts_dir[name] = doc)
          /\ drafts_dir' = DirWrite(drafts_dir, name, doc)
    /\ UNCHANGED <<posts_dir, index_file, runvars, mdvars, callvars>>

\* Between two runs the author removes a draft.
AuthorRemovesDraft ==
    /\ pc = "idle"
    /\ \E name \in DOMAIN drafts_dir :
          drafts_dir' = DirRemove(drafts_dir, {name})
    /\ UNCHANGED <<posts_dir, index_file, runvars, mdvars, callvars>>

\* A step of the program (not of the author).
ProgramStep == pc # "idle" \/ pc' # "idle"

RunsNext ==
    \/ MainClean
    \/ MainPlain
    \/ BuildGlob
    \/ BuildDraft
    \/ BuildIndex
    \/ MainExit
    \/ AuthorWritesDraft
    \/ AuthorRemovesDraft

SpecRuns == RunsInit /\ [][RunsNext]_vars

\* C15: no step of the program, in a run with or without --clean, changes the
\* drafts directory; the clean step changes only the posts directory, where
\* it only removes files, and build removes no file.
C15_SourcesUntouched ==
    [][ ProgramStep =>
          /\ drafts_dir' = drafts_dir
          /\ pc = "idle" =>
                /\ index_file' = index_file
                /\ DOMAIN posts_dir' \subseteq DOMAIN posts_dir
                /\ \A n \in DOMAIN posts_dir' : posts_dir'[n] = posts_dir[n]
          /\ pc # "idle" => DOMAIN posts_dir \subseteq DOMAIN posts_dir' ]_vars

\* C15's case: a run with --clean has just removed the output of an earlier
\* run (the index of that run is there, its post files are not) while there
\* are drafts.
C15_Witness ==
    /\ pc = "build"
    /\ index_file # <<>>
    /\ posts_dir = EmptyDir
    /\ drafts_dir # EmptyDir

\* C17: when two drafts of one build yield the same slug, the run still
\* ends with the index written, the post file of that slug holds the page of
\* the draft enumerated last among them, there is one post file per slug, and
\* the index has one entry for each draft.
C17_SameSlugOverwrites ==
    pc = "done" =>
      LET entries == PostsOf(drafts_dir, drafts)
          n == Len(drafts)
          out(i) == entries[i].slug \o Html
      IN  /\ \A i, j \in 1..n :
                (i < j /\ entries[i].slug = entries[j].slug
                   /\ \A k \in (j + 1)..n : entries[k].slug # entries[j].slug)
                  => /\ out(j) \in DOMAIN posts_dir
                     /\ posts_dir[out(j)]
                          = DraftPost(drafts[j], drafts_dir[drafts[j]]).post_html
          /\ Cardinality(DOMAIN posts_dir)
                = Cardinality({entries[i].slug : i \in 1..n})
          /\ index_file # <<>>
          /\ Len(index_file[1]) = n
          /\ \A i \in 1..n : \E k \in 1..n :
                index_file[1][k]
                  = generate_index_item(entries[i].meta, entries[i].slug)

\* C17's case: a finished build whose first two drafts gave the same slug
\* and different pages.
C17_Witness ==
    /\ pc = "done"
    /\ Len(drafts) >= 2
    /\ LET a == DraftPost(drafts[1], drafts_dir[drafts[1]])
           b == DraftPost(drafts[2], drafts_dir[drafts[2]])
       IN  a.slug = b.slug /\ a.post_html # b.post_html

\* The file of the posts directory an item of the index links to.
LinkedName(item) == SubSeq(item.href, 2, Len(item.href) - 1) \o Html

\* C18: between and after runs (each with or without --clean, drafts added
\* or removed in between), every post file the index links to exists in
\* the posts directory.
C18_IndexLinksExist ==
    (pc \in {"idle", "done", "nothing"} /\ index_file # <<>>)
      => \A k \in 1..Len(index_file[1]) :
            LinkedName(index_file[1][k]) \in DOMAIN posts_dir

\* ------------------------------------------- inline_format on its own

SpanKinds == {"bold", "italic", "code", "link"}

\* What follows the first letter inside a span.
Words == UNION {[1..n -> {"a", " "}] : n \in 0..MaxWordLen}

\* The plain text between two spans.
Separators == UNION {[1..n -> {" ", "x"}] : n \in 1..MaxSepLen}

Span(kind, w) ==
    CASE kind = "bold"   -> [kind |-> kind, text |-> <<"b">> \o w, url |-> <<>>]
      [] kind = "italic" -> [kind |-> kind, text |-> <<"i">> \o w, url |-> <<>>]
      [] kind = "code"   -> [kind |-> kind, text |-> <<"c">> \o w, url |-> <<>>]
      [] kind = "link"   -> [kind |-> kind, text |-> <<"t">> \o w,
                             url |-> <<"u", "/">> \o w]

Plain(sep) == [kind |-> "plain", text |-> sep, url |-> <<>>]

\* The four spans in the order e, w inside each, seps between them.
SpanLine(e, w, seps) ==
    << Span(e[1], w), Plain(seps[1]), Span(e[2], w), Plain(seps[2]),
       Span(e[3], w), Plain(seps[3]), Span(e[4], w) >>

\* A piece as it is written in the line.
Written(piece) ==
    CASE piece.kind = "bold"   -> <<"*", "*">> \o piece.text \o <<"*", "*">>
      [] piece.kind = "italic" -> <<"*">> \o piece.text \o <<"*">>
      [] piece.kind = "code"   -> <<Backtick>> \o piece.text \o <<Backtick>>
      [] piece.kind = "link"   -> <<"[">> \o piece.text \o <<"]", "(">>
                                    \o piece.url \o <<")">>
      [] OTHER                 -> piece.text

\* The element the claim expects for a piece.
Element(piece) ==
    CASE piece.kind = "bold"   -> <<"<strong>">> \o piece.text \o <<"</strong>">>
      [] piece.kind = "italic" -> <<"<em>">> \o piece.text \o <<"</em>">>
      [] piece.kind = "code"   -> <<"<code>">> \o piece.text \o <<"</code>">>
      [] piece.kind = "link"   -> <<"<a href=\"">> \o piece.url \o <<"\">">>
                                    \o piece.text \o <<"</a>">>
      [] OTHER                 -> piece.text

InlineStart ==
    /\ NoMd
    /\ NoRun
    /\ NoFm
    /\ NoSlug
    /\ \E e \in Enumerations(SpanKinds), w \in Words,
          seps \in [1..3 -> Separators] :
          /\ if_spans = SpanLine(e, w, seps)
          /\ if_text = Flatten([i \in 1..7 |-> Written(if_spans[i])])
    /\ if_returned = FALSE
    /\ if_out = <<>>

\* inline_format(text)
InlineCall ==
    /\ ~if_returned
    /\ if_out' = inline_format(if_text)
    /\ if_returned' = TRUE
    /\ UNCHANGED <<if_text, if_spans, mdvars, fsvars, runvars, fmvars, slvars>>

InlineNext == InlineCall

SpecInline == InlineStart /\ [][InlineNext]_vars

\* C16: for a line made of a bold span, an italic span, a code span and a
\* link, in any order, separated by plain text, inline_format gives the line
\* with each span replaced by its element (<strong>, <em>, <code>,
\* <a href="url">) around exactly the delimited text, and the plain text as
\* it was: one element of each kind.
C16_FourSpansAnyOrder ==
    if_returned => if_out = Flatten([i \in 1..7 |-> Element(if_spans[i])])

\* C16's case: the link comes first and the italic span before the bold one,
\* each with more than one character inside.
C16_Witness ==
    /\ if_returned
    /\ if_spans[1].kind = "link"
    /\ if_spans[3].kind = "italic"
    /\ if_spans[5].kind = "bold"
    /\ Len(if_spans[5].text) = 2

\* ------------------------------------------- md_to_html: nesting of blocks

\* The block a fragment opens or closes, "" when it does neither.
Opens(frag) ==
    CASE frag = <<"<ul>">> -> "ul"
      [] frag = <<"<ol>">> -> "ol"
      [] frag = <<"<pre><code>">> -> "pre"
      [] OTHER -> ""

Closes(frag) ==
    CASE frag = <<"</ul>">> -> "ul"
      [] frag = <<"</ol>">> -> "ol"
      [] frag = <<"</code></pre>">> -> "pre"
      [] OTHER -> ""

\* Every close fragment of frags closes the block opened last among those
\* still open; open lists the open blocks, the last opened first.
RECURSIVE ProperlyNested(_, _)
ProperlyNested(frags, open) ==
    IF frags = <<>> THEN TRUE
    ELSE IF Opens(Head(frags)) # ""
    THEN ProperlyNested(Tail(frags), <<Opens(Head(frags))>> \o open)
    ELSE IF Closes(Head(frags)) # ""
    THEN /\ open # <<>>
         /\ Head(open) = Closes(Head(frags))
         /\ ProperlyNested(Tail(frags), Tail(open))
    ELSE ProperlyNested(Tail(frags), open)

\* C19: the open and close fragments of lists and code blocks emitted so far
\* are properly nested, after every line and after the statements that
\* follow the loop: each close fragment closes the block opened last among
\* those still open.
C19_BlocksProperlyNested == ProperlyNested(result, <<>>)

====
